---- MODULE Spec2Model ----
(***************************************************************************)
(* Statistics-and-histogram engine of resource_monitor: the univariate     *)
(* accumulator (struct stats), the bivariate accumulator (struct stats2),  *)
(* the sparse histogram and the multi-series collector (struct mordor).    *)
(*                                                                         *)
(* A C double is modelled as a pair <<n, d>>: an exact fraction n/d in     *)
(* lowest terms with d > 0, or one of the IEEE specials with d = 0:        *)
(* <<0,0>> is NaN, <<1,0>> is +Infinity, <<-1,0>> is -Infinity.            *)
(* Arithmetic is exact, except where the order of the operations is at     *)
(* stake: the running sums of struct stats are rounded after each addition *)
(* as a double rounds them (to nearest, ties to even), on a significand of *)
(* SignificandBits bits instead of 53.                                     *)
(***************************************************************************)
EXTENDS Integers, Sequences, FiniteSets, Bags, TLC

VARIABLES
    s,                \* struct stats under test
    inserted,         \* ghost: bag of the finite values given to s since its last init/reset
    s2,               \* struct stats2 under test
    points,           \* ghost: bag of the points <<x, y>> held by s2 since its last reset
    slope_dst,        \* the caller's double that stats2_linear_regression gets as slope_dst
    yint_dst,         \* the caller's double that stats2_linear_regression gets as yint_dst
    op,               \* name of the last operation
    arg,              \* argument(s) of the last operation
    ret,              \* scalar returned by the last operation
    hist,             \* histogram pointer returned by the last stats_build_histogram
    table,            \* struct mordor: key -> struct mordor_mountain
    keys,             \* the keys of table, in the order they were first inserted
    cumulative_stats, \* struct mordor: stats of all values
    cumulative_hist,  \* struct mordor: histogram of all values
    bucket_size,      \* struct mordor: the shared bucket size
    dirty,            \* struct mordor: histograms must be regenerated
    style,            \* struct mordor: plotting style
    sortby,           \* struct mordor: sorting style
    calls,            \* number of collector calls made so far
    heap,             \* ghost: what the collector has allocated and not released
    pc,               \* position of the caller within mordor_plot
    sorted,           \* mordor_plot: the keys in the order create_sorted_keys returned
    cumulative_buckets, \* datafile: the occupied buckets of the cumulative histogram
    mtn_start,        \* datafile (clean): start[], first bucket's start of each mountain
    mtn_finish,       \* datafile (clean): finish[], last bucket's start of each mountain
    state,            \* datafile (clean): state of each mountain
    bucket,           \* datafile: index of the loop over cumulative_buckets (row in classic)
    pos,              \* datafile (clean): position of the row being written
    out               \* the lines written to the data file, in order

vars == <<s, inserted, s2, points, slope_dst, yint_dst, op, arg, ret, hist, table, keys,
          cumulative_stats, cumulative_hist, bucket_size, dirty, style, sortby, calls, heap,
          pc, sorted, cumulative_buckets, mtn_start, mtn_finish, state, bucket, pos, out>>

\* the locals of mordor_plot and of the data file writers, and the data file
plotVars == <<pc, sorted, cumulative_buckets, mtn_start, mtn_finish, state, bucket, pos, out>>

mordorVars == <<table, keys, cumulative_stats, cumulative_hist, bucket_size, dirty,
                style, sortby, calls, heap, plotVars>>

\* the caller's side of stats2_linear_regression, and the ghost of s2
regVars == <<points, slope_dst, yint_dst>>

-----------------------------------------------------------------------------
(* Bounds of the model *)

\* most values one accumulator under test holds
MaxCount == 6
\* most values the bivariate accumulator under test holds
MaxCount2 == 2
\* most mordor_insert calls made on one collector
MaxCalls == 4
\* most mordor_insert calls made on a collector that is plotted
MaxPlotCalls == 3
\* points accepted by the bivariate accumulator before a regression
MaxPoints == 3
\* most lines of one data file that are followed
MaxLines == 64
\* bits of the significand of a double in the model (DBL_MANT_DIG is 53)
SignificandBits == 8
\* most values of an accumulator whose sum is rounded
MaxOrderCount == 3

-----------------------------------------------------------------------------
(* double arithmetic *)

NaN == <<0, 0>>
PInf == <<1, 0>>
NInf == <<-1, 0>>

Abs(n) == IF n < 0 THEN -n ELSE n
Sgn(n) == IF n < 0 THEN -1 ELSE IF n > 0 THEN 1 ELSE 0

RECURSIVE GCD(_, _)
GCD(a, b) == IF b = 0 THEN a ELSE GCD(b, a % b)

\* the fraction n/d (d # 0) in lowest terms with a positive denominator
Frac(n, d) ==
    LET g == GCD(Abs(n), Abs(d))
    IN  <<Sgn(d) * (n \div g), Abs(d) \div g>>

\* the double of an integer
F(n) == <<n, 1>>

isnan(x) == x[2] = 0 /\ x[1] = 0
isinf(x) == x[2] = 0 /\ x[1] # 0
isfinite(x) == x[2] # 0

FNeg(x) == <<-x[1], x[2]>>

FAdd(x, y) ==
    IF isnan(x) \/ isnan(y) THEN NaN
    ELSE IF isinf(x) THEN (IF isinf(y) /\ y # x THEN NaN ELSE x)
    ELSE IF isinf(y) THEN y
    ELSE LET g == GCD(x[2], y[2])
         IN  Frac(x[1] * (y[2] \div g) + y[1] * (x[2] \div g), (x[2] \div g) * y[2])

FSub(x, y) == FAdd(x, FNeg(y))

FMul(x, y) ==
    IF isnan(x) \/ isnan(y) THEN NaN
    ELSE IF isinf(x) \/ isinf(y)
         THEN (IF x[1] = 0 \/ y[1] = 0 THEN NaN ELSE <<Sgn(x[1]) * Sgn(y[1]), 0>>)
    ELSE LET g1 == GCD(Abs(x[1]), y[2])
             g2 == GCD(Abs(y[1]), x[2])
         IN  IF x[1] = 0 \/ y[1] = 0 THEN F(0)
             ELSE Frac((x[1] \div g1) * (y[1] \div g2), (x[2] \div g2) * (y[2] \div g1))

FDiv(x, y) ==
    IF isnan(x) \/ isnan(y) THEN NaN
    ELSE IF isinf(y) THEN (IF isinf(x) THEN NaN ELSE F(0))
    ELSE IF y[1] = 0 THEN (IF x[1] = 0 THEN NaN ELSE <<Sgn(x[1]), 0>>)
    ELSE IF isinf(x) THEN <<Sgn(x[1]) * Sgn(y[1]), 0>>
    ELSE FMul(x, <<Sgn(y[1]) * y[2], Abs(y[1])>>)

\* x < y on doubles: false as soon as one side is NaN
FLt(x, y) ==
    IF isnan(x) \/ isnan(y) THEN FALSE
    ELSE IF isinf(x) \/ isinf(y)
         THEN (IF isinf(x) /\ isinf(y) THEN x[1] < y[1]
               ELSE IF isinf(x) THEN x[1] < 0
               ELSE y[1] > 0)
    ELSE x[1] * y[2] < y[1] * x[2]

FGt(x, y) == FLt(y, x)
FEq(x, y) == ~isnan(x) /\ ~isnan(y) /\ x = y
FLe(x, y) == FLt(x, y) \/ FEq(x, y)
FGe(x, y) == FLe(y, x)

fabs(x) == <<Abs(x[1]), x[2]>>

floor(x) == IF isfinite(x) THEN F(x[1] \div x[2]) ELSE x

\* 2^k for k >= 0
RECURSIVE pow2(_)
pow2(k) == IF k = 0 THEN 1 ELSE 2 * pow2(k - 1)

\* a/b (a >= 0, b > 0) rounded to the nearest integer, a tie to the even one
round_half_even(a, b) ==
    LET q == a \div b
        r == a % b
    IN  IF 2 * r > b \/ (2 * r = b /\ q % 2 = 1) THEN q + 1 ELSE q

\* a/b > 0 rounded to SignificandBits significant bits
RECURSIVE round_magnitude(_, _)
round_magnitude(a, b) ==
    IF a >= pow2(SignificandBits) * b
    THEN FMul(F(2), round_magnitude(a, 2 * b))
    ELSE IF a < pow2(SignificandBits - 1) * b
         THEN FDiv(round_magnitude(2 * a, b), F(2))
         ELSE F(round_half_even(a, b))

\* the double that the exact result x of an operation on doubles is stored as
to_double(x) ==
    IF ~isfinite(x) \/ x[1] = 0 THEN x
    ELSE IF x[2] = 1 /\ Abs(x[1]) <= pow2(SignificandBits) THEN x
    ELSE LET m == round_magnitude(Abs(x[1]), x[2]) IN <<Sgn(x[1]) * m[1], m[2]>>

\* (int)sqrt(n) for a count n >= 0
RECURSIVE isqrt_from(_, _)
isqrt_from(n, k) == IF (k + 1) * (k + 1) > n THEN k ELSE isqrt_from(n, k + 1)
int_sqrt(n) == isqrt_from(n, 0)

\* sqrt() gives irrational numbers; its result is kept exact as a pair <<q, r>>
\* standing for q * sqrt(r): q a double as above, r a squarefree integer >= 1
\* (r = 1 when q is zero or not finite).  A double x is the pair <<x, 1>>.
Surd(q, r) == IF isfinite(q) /\ q[1] # 0 THEN <<q, r>> ELSE <<q, 1>>

\* the largest k >= from whose square divides n, searched upwards (n >= 1)
RECURSIVE square_part_from(_, _)
square_part_from(n, k) ==
    IF k * k > n THEN 1
    ELSE IF n % (k * k) = 0 THEN k * square_part_from(n \div (k * k), k)
    ELSE square_part_from(n, k + 1)

\* sqrt(n/d) = sqrt(n*d)/d = (k/d) * sqrt(n*d/k^2); NaN below zero
sqrt(x) ==
    IF isnan(x) \/ x[1] < 0 THEN <<NaN, 1>>
    ELSE IF isinf(x) \/ x[1] = 0 THEN <<x, 1>>
    ELSE LET k == square_part_from(x[1] * x[2], 2)
         IN  <<Frac(k, x[2]), (x[1] * x[2]) \div (k * k)>>

\* product and quotient of two such numbers
SMul(a, b) ==
    LET g == GCD(a[2], b[2])
    IN  Surd(FMul(FMul(a[1], b[1]), F(g)), (a[2] \div g) * (b[2] \div g))

SDiv(a, b) ==
    LET g == GCD(a[2], b[2])
    IN  Surd(FMul(FDiv(a[1], FMul(b[1], F(b[2]))), F(g)), (a[2] \div g) * (b[2] \div g))

\* the bag of the elements of a sequence
RECURSIVE BagOfSeq(_)
BagOfSeq(q) == IF q = <<>> THEN EmptyBag ELSE SetToBag({q[1]}) (+) BagOfSeq(Tail(q))

-----------------------------------------------------------------------------
(* Histogram: sparse map from bucket start to count, buckets anchored at 0 *)

NULL == <<>>

histogram_create(bucket_width) == [bucket_size |-> bucket_width, buckets |-> <<>>]

\* start of the bucket a value falls in
histogram_bucket_of(h, value) ==
    FMul(floor(FDiv(value, h.bucket_size)), h.bucket_size)

histogram_count(h, bucket_start) ==
    IF bucket_start \in DOMAIN h.buckets THEN h.buckets[bucket_start] ELSE 0

histogram_insert(h, value) ==
    LET b == histogram_bucket_of(h, value)
    IN  [h EXCEPT !.buckets =
            [x \in (DOMAIN h.buckets) \cup {b} |-> histogram_count(h, x) + (IF x = b THEN 1 ELSE 0)]]

histogram_size(h) == Cardinality(DOMAIN h.buckets)

histogram_bucket_size(h) == h.bucket_size

\* the occupied bucket starts, ascending
histogram_buckets(h) ==
    SortSeq(CHOOSE q \in [1..Cardinality(DOMAIN h.buckets) -> DOMAIN h.buckets] :
                {q[i] : i \in DOMAIN q} = DOMAIN h.buckets,
            FLt)

\* number of values a histogram holds
RECURSIVE SumCounts(_, _)
SumCounts(h, starts) ==
    IF starts = {} THEN 0
    ELSE LET b == CHOOSE x \in starts : TRUE
         IN  h.buckets[b] + SumCounts(h, starts \ {b})

histogram_total_count(h) == SumCounts(h, DOMAIN h.buckets)

-----------------------------------------------------------------------------
(* struct stats: sum, sum_squares, count, values[0..count), values_alloc, dirty *)

\* initial size of the values buffer: 4096/sizeof(double)
STATS_VALUES_INITSIZE == 512

\* enum outlier_handling
STATS_KEEP_OUTLIERS == 0
STATS_DISCARD_OUTLIERS == 1

\* values models the cells values[0..count) of the buffer, the only cells the
\* code reads; C index i is values[i + 1]
stats_enlarge(st) == [st EXCEPT !.values_alloc = 2 * st.values_alloc]

\* stats_sort clearing the flag without sorting
stats_sort_clearing_flag_only(st) == [st EXCEPT !.dirty = FALSE]

stats_sort(st) ==
    IF st.dirty
    THEN [st EXCEPT !.values = SortSeq(st.values, FLt), !.dirty = FALSE]
    ELSE st

\* stats_reset leaving sum_squares as it was
stats_reset_keeping_sum_squares(st) ==
    [st EXCEPT !.sum = F(0), !.count = 0, !.values = <<>>, !.dirty = FALSE]

stats_reset(st) ==
    [st EXCEPT !.sum = F(0), !.sum_squares = F(0), !.count = 0, !.values = <<>>, !.dirty = FALSE]

stats_init ==
    [sum |-> F(0), sum_squares |-> F(0), count |-> 0, values |-> <<>>,
     values_alloc |-> STATS_VALUES_INITSIZE, dirty |-> FALSE]

\* stats_insert testing isnan() only
stats_insert_passing_infinity(st, value) ==
    IF isnan(value)
    THEN st
    ELSE LET e == IF st.count = st.values_alloc THEN stats_enlarge(st) ELSE st
         IN  [e EXCEPT !.sum = to_double(FAdd(st.sum, value)),
                       !.sum_squares = to_double(FAdd(st.sum_squares, to_double(FMul(value, value)))),
                       !.values = Append(st.values, value),
                       !.count = st.count + 1,
                       !.dirty = TRUE]

\* stats_insert not setting the dirty flag
stats_insert_not_marking_dirty(st, value) ==
    IF isnan(value) \/ isinf(value)
    THEN st
    ELSE LET e == IF st.count = st.values_alloc THEN stats_enlarge(st) ELSE st
         IN  [e EXCEPT !.sum = to_double(FAdd(st.sum, value)),
                       !.sum_squares = to_double(FAdd(st.sum_squares, to_double(FMul(value, value)))),
                       !.values = Append(st.values, value),
                       !.count = st.count + 1]

stats_insert(st, value) ==
    IF isnan(value) \/ isinf(value)
    THEN st
    ELSE LET e == IF st.count = st.values_alloc THEN stats_enlarge(st) ELSE st
         IN  [e EXCEPT !.sum = to_double(FAdd(st.sum, value)),
                       !.sum_squares = to_double(FAdd(st.sum_squares, to_double(FMul(value, value)))),
                       !.values = Append(st.values, value),
                       !.count = st.count + 1,
                       !.dirty = TRUE]

\* A query yields [ret |-> the value returned, s |-> the accumulator afterwards]
stats_mean(st) == [ret |-> FDiv(st.sum, F(st.count)), s |-> st]

stats_variance(st) ==
    LET mean == stats_mean(st).ret
    IN  [ret |-> FSub(FDiv(st.sum_squares, F(st.count)), FMul(mean, mean)), s |-> st]

stats_minimum(st) ==
    IF st.count = 0
    THEN [ret |-> NaN, s |-> st]
    ELSE LET t == stats_sort(st) IN [ret |-> t.values[1], s |-> t]

\* stats_maximum reading the last cell without sorting first
stats_maximum_unsorted(st) ==
    IF st.count = 0
    THEN [ret |-> NaN, s |-> st]
    ELSE [ret |-> st.values[st.count], s |-> st]

stats_maximum(st) ==
    IF st.count = 0
    THEN [ret |-> NaN, s |-> st]
    ELSE LET t == stats_sort(st) IN [ret |-> t.values[t.count], s |-> t]

stats_middle_between(st, start, end) ==
    LET t == stats_sort(st)
        delta == end - start
    IN  IF delta = 0 THEN [ret |-> NaN, s |-> t]
        ELSE IF delta % 2 = 1
             THEN [ret |-> t.values[start + (delta \div 2) + 1], s |-> t]
             ELSE [ret |-> FDiv(FAdd(t.values[start + (delta \div 2)],
                                     t.values[start + (delta \div 2) + 1]), F(2)),
                   s |-> t]

stats_median(st) == stats_middle_between(st, 0, st.count)

stats_Q1(st) ==
    IF st.count = 1
    THEN [ret |-> st.values[1], s |-> st]
    ELSE stats_middle_between(st, 0, st.count \div 2)

\* stats_Q3 taking the upper half from count/2 whatever the parity of count
stats_Q3_from_half(st) ==
    IF st.count = 1
    THEN [ret |-> st.values[1], s |-> st]
    ELSE stats_middle_between(st, st.count \div 2, st.count)

stats_Q3(st) ==
    IF st.count = 1
    THEN [ret |-> st.values[1], s |-> st]
    ELSE IF st.count % 2 = 0
         THEN stats_middle_between(st, st.count \div 2, st.count)
         ELSE stats_middle_between(st, (st.count \div 2) + 1, st.count)

\* the loop of stats_whisker_low stopping at the first value > threshold
RECURSIVE whisker_low_scan_strict(_, _, _)
whisker_low_scan_strict(st, threshold, i) ==
    LET lowest == st.values[i + 1]
    IN  IF FGt(lowest, threshold) \/ i + 1 >= st.count
        THEN lowest
        ELSE whisker_low_scan_strict(st, threshold, i + 1)

\* the loop of stats_whisker_low from C index i on: the first value >= threshold,
\* or the last value read
RECURSIVE whisker_low_scan(_, _, _)
whisker_low_scan(st, threshold, i) ==
    LET lowest == st.values[i + 1]
    IN  IF FGe(lowest, threshold) \/ i + 1 >= st.count
        THEN lowest
        ELSE whisker_low_scan(st, threshold, i + 1)

stats_whisker_low(st) ==
    IF st.count = 0
    THEN [ret |-> NaN, s |-> st]
    ELSE LET q1 == stats_Q1(st)
             q3 == stats_Q3(q1.s)
             threshold == FSub(q1.ret, FMul(<<3, 2>>, FSub(q3.ret, q1.ret)))
         IN  [ret |-> whisker_low_scan(q3.s, threshold, 0), s |-> q3.s]

\* the loop of stats_whisker_high from C index i down
RECURSIVE whisker_high_scan(_, _, _)
whisker_high_scan(st, threshold, i) ==
    LET highest == st.values[i + 1]
    IN  IF FLe(highest, threshold) \/ i - 1 < 0
        THEN highest
        ELSE whisker_high_scan(st, threshold, i - 1)

stats_whisker_high(st) ==
    IF st.count = 0
    THEN [ret |-> NaN, s |-> st]
    ELSE LET q3 == stats_Q3(st)
             q1 == stats_Q1(q3.s)
             threshold == FAdd(q3.ret, FMul(<<3, 2>>, FSub(q3.ret, q1.ret)))
         IN  [ret |-> whisker_high_scan(q1.s, threshold, q1.s.count - 1), s |-> q1.s]

\* the discard-outliers loop testing value > low
RECURSIVE build_discard_strict_low(_, _, _, _, _)
build_discard_strict_low(h, st, low, high, i) ==
    IF i >= st.count THEN h
    ELSE LET value == st.values[i + 1]
         IN  build_discard_strict_low(IF FGt(value, low) /\ FLe(value, high)
                                      THEN histogram_insert(h, value) ELSE h,
                                      st, low, high, i + 1)

\* the two insertion loops of stats_build_histogram, from C index i on
RECURSIVE build_discard(_, _, _, _, _)
build_discard(h, st, low, high, i) ==
    IF i >= st.count THEN h
    ELSE LET value == st.values[i + 1]
         IN  build_discard(IF FGe(value, low) /\ FLe(value, high)
                           THEN histogram_insert(h, value) ELSE h,
                           st, low, high, i + 1)

\* the keep-outliers loop running while i < count - 1
RECURSIVE build_keep_short(_, _, _)
build_keep_short(h, st, i) ==
    IF i >= st.count - 1 THEN h
    ELSE build_keep_short(histogram_insert(h, st.values[i + 1]), st, i + 1)

RECURSIVE build_keep(_, _, _)
build_keep(h, st, i) ==
    IF i >= st.count THEN h
    ELSE build_keep(histogram_insert(h, st.values[i + 1]), st, i + 1)

\* stats_build_histogram without its test of count == 0
stats_build_histogram_unguarded(st, bucket_width, h) ==
    IF h = STATS_DISCARD_OUTLIERS
    THEN LET lo == stats_whisker_low(st)
             hi == stats_whisker_high(lo.s)
         IN  [hist |-> build_discard(histogram_create(bucket_width), hi.s, lo.ret, hi.ret, 0),
              s |-> hi.s]
    ELSE LET lo == stats_minimum(st)
             hi == stats_maximum(lo.s)
         IN  [hist |-> build_keep(histogram_create(bucket_width), hi.s, 0), s |-> hi.s]

\* yields [hist |-> the histogram (NULL if none), s |-> the accumulator afterwards]
stats_build_histogram(st, bucket_width, h) ==
    IF st.count = 0
    THEN [hist |-> NULL, s |-> st]
    ELSE IF h = STATS_DISCARD_OUTLIERS
         THEN LET lo == stats_whisker_low(st)
                  hi == stats_whisker_high(lo.s)
              IN  [hist |-> build_discard(histogram_create(bucket_width), hi.s, lo.ret, hi.ret, 0),
                   s |-> hi.s]
         ELSE LET lo == stats_minimum(st)
                  hi == stats_maximum(lo.s)
              IN  [hist |-> build_keep(histogram_create(bucket_width), hi.s, 0), s |-> hi.s]

\* max += max/1e6
NUDGE_DIVISOR == 1000000

stats_ideal_bucket_size(st) ==
    LET mx == stats_maximum(st)
        mn == stats_minimum(mx.s)
        max0 == fabs(mx.ret)
        min == fabs(mn.ret)
        max == IF FEq(max0, min) THEN FAdd(max0, FDiv(max0, F(NUDGE_DIVISOR))) ELSE max0
    IN  [ret |-> FDiv(FSub(max, min), F(int_sqrt(st.count))), s |-> mn.s]

RECURSIVE merge_from(_, _, _)
merge_from(cumulative, another, i) ==
    IF i >= another.count THEN cumulative
    ELSE merge_from(stats_insert(cumulative, another.values[i + 1]), another, i + 1)

stats_merge(cumulative, another) == merge_from(cumulative, another, 0)

-----------------------------------------------------------------------------
(* struct stats2: running sums, per-axis min/max, count *)

stats2_reset ==
    [sum_x |-> F(0), sum_y |-> F(0), sum_xy |-> F(0),
     sum_squares_x |-> F(0), sum_squares_y |-> F(0),
     min_x |-> PInf, min_y |-> PInf, max_x |-> NInf, max_y |-> NInf, count |-> 0]

stats2_init == stats2_reset

stats2_insert(st, x, y) ==
    IF isnan(x) \/ isnan(y) \/ isinf(x) \/ isinf(y)
    THEN st
    ELSE [st EXCEPT !.sum_x = FAdd(st.sum_x, x),
                    !.sum_y = FAdd(st.sum_y, y),
                    !.sum_xy = FAdd(st.sum_xy, FMul(x, y)),
                    !.sum_squares_x = FAdd(st.sum_squares_x, FMul(x, x)),
                    !.sum_squares_y = FAdd(st.sum_squares_y, FMul(y, y)),
                    !.min_x = IF FGt(st.min_x, x) THEN x ELSE st.min_x,
                    !.min_y = IF FGt(st.min_y, y) THEN y ELSE st.min_y,
                    !.max_x = IF FLt(st.max_x, x) THEN x ELSE st.max_x,
                    !.max_y = IF FLt(st.max_y, y) THEN y ELSE st.max_y,
                    !.count = st.count + 1]

stats2_mean_x(st) == FDiv(st.sum_x, F(st.count))

stats2_mean_y(st) == FDiv(st.sum_y, F(st.count))

stats2_stddev_x(st) ==
    LET mean_x == stats2_mean_x(st)
    IN  sqrt(FSub(FDiv(st.sum_squares_x, F(st.count)), FMul(mean_x, mean_x)))

stats2_stddev_y(st) ==
    LET mean_y == stats2_mean_y(st)
    IN  sqrt(FSub(FDiv(st.sum_squares_y, F(st.count)), FMul(mean_y, mean_y)))

stats2_covariance(st) ==
    FSub(FDiv(st.sum_xy, F(st.count)), FMul(stats2_mean_x(st), stats2_mean_y(st)))

stats2_linear_correlation(st) ==
    SDiv(<<stats2_covariance(st), 1>>, SMul(stats2_stddev_x(st), stats2_stddev_y(st)))

\* the slope as stats2_linear_regression computes it
regression_slope(st) ==
    SMul(stats2_linear_correlation(st), SDiv(stats2_stddev_y(st), stats2_stddev_x(st)))

\* stats2_linear_regression writing its results before it tests the slope
stats2_linear_regression_writing_first(st, slope_given, yint_given, dst) ==
    IF st.count < 2 \/ ~slope_given \/ ~yint_given
    THEN [ret |-> 0, slope |-> dst.slope, yint |-> dst.yint]
    ELSE \* the slope is rational whenever it is finite
         LET slope == regression_slope(st)[1]
             yint == FSub(FDiv(st.sum_y, F(st.count)),
                          FDiv(FMul(slope, st.sum_x), F(st.count)))
         IN  [ret |-> IF isnan(slope) \/ isinf(slope) THEN 0 ELSE 1,
              slope |-> slope, yint |-> yint]

\* stats2_linear_regression: [ret, slope, yint] are the int returned and the doubles
\* behind slope_dst and yint_dst afterwards; dst holds them as they were before, and
\* slope_given, yint_given tell whether the pointers are not NULL
stats2_linear_regression(st, slope_given, yint_given, dst) ==
    IF st.count < 2 \/ ~slope_given \/ ~yint_given
    THEN [ret |-> 0, slope |-> dst.slope, yint |-> dst.yint]
    ELSE \* the slope is rational whenever it is finite
         LET slope == regression_slope(st)[1]
         IN  IF isnan(slope) \/ isinf(slope)
             THEN [ret |-> 0, slope |-> dst.slope, yint |-> dst.yint]
             ELSE [ret |-> 1, slope |-> slope,
                   yint |-> FSub(FDiv(st.sum_y, F(st.count)),
                                 FDiv(FMul(slope, st.sum_x), F(st.count)))]

-----------------------------------------------------------------------------
(* Inputs *)

NonFinite == {NaN, PInf, NInf}

\* finite values given to the accumulator under test
StatValues == {F(-2), F(0), F(3)}

\* bucket sizes given to stats_build_histogram
BucketWidths == {F(2), <<3, 2>>}

\* accumulators merged into the one under test
MergeSources == {<<F(3)>>, <<F(0), F(-2)>>}

\* finite coordinates given to the bivariate accumulator
Stat2Values == {F(-1), F(2)}

\* points given to the bivariate accumulator before a regression
RegressionPoints ==
    {<<F(1), F(2)>>, <<F(2), F(4)>>, <<F(3), F(6)>>, <<F(2), F(2)>>, <<F(3), F(2)>>,
     <<F(1), F(4)>>}

RECURSIVE stats_of(_)
\* the accumulator a caller gets by stats_init and inserting the values of q in order
stats_of(q) ==
    IF q = <<>> THEN stats_init
    ELSE stats_insert(stats_of(SubSeq(q, 1, Len(q) - 1)), q[Len(q)])

-----------------------------------------------------------------------------
(* Operations on the accumulator under test *)

StatsInit ==
    /\ s' = stats_init
    /\ inserted' = EmptyBag
    /\ op' = "stats_init" /\ arg' = <<>> /\ ret' = NaN /\ hist' = NULL
    /\ UNCHANGED <<s2, regVars, mordorVars>>

StatsReset ==
    /\ s' = stats_reset(s)
    /\ inserted' = EmptyBag
    /\ op' = "stats_reset" /\ arg' = <<>> /\ ret' = NaN /\ hist' = NULL
    /\ UNCHANGED <<s2, regVars, mordorVars>>

StatsInsert(value, max) ==
    /\ isfinite(value) => s.count < max
    /\ s' = stats_insert(s, value)
    /\ inserted' = IF isfinite(value) THEN inserted (+) SetToBag({value}) ELSE inserted
    /\ op' = "stats_insert" /\ arg' = <<value>> /\ ret' = NaN /\ hist' = NULL
    /\ UNCHANGED <<s2, regVars, mordorVars>>

StatsMerge(q) ==
    /\ s.count + Len(q) <= MaxCount
    /\ s' = stats_merge(s, stats_of(q))
    /\ inserted' = inserted (+) BagOfSeq(q)
    /\ op' = "stats_merge" /\ arg' = q /\ ret' = NaN /\ hist' = NULL
    /\ UNCHANGED <<s2, regVars, mordorVars>>

\* the scalar statistic called name, asked of the accumulator st
stats_query(name, st) ==
    CASE name = "stats_mean" -> stats_mean(st)
      [] name = "stats_variance" -> stats_variance(st)
      [] name = "stats_minimum" -> stats_minimum(st)
      [] name = "stats_maximum" -> stats_maximum(st)
      [] name = "stats_median" -> stats_median(st)
      [] name = "stats_Q1" -> stats_Q1(st)
      [] name = "stats_Q3" -> stats_Q3(st)
      [] name = "stats_whisker_low" -> stats_whisker_low(st)
      [] name = "stats_whisker_high" -> stats_whisker_high(st)

StatsQuery(name) ==
    /\ LET r == stats_query(name, s) IN s' = r.s /\ ret' = r.ret
    /\ op' = name /\ arg' = <<>> /\ hist' = NULL
    /\ UNCHANGED <<inserted, s2, regVars, mordorVars>>

StatsBuildHistogram(bucket_width, h) ==
    /\ LET r == stats_build_histogram(s, bucket_width, h) IN s' = r.s /\ hist' = r.hist
    /\ op' = "stats_build_histogram" /\ arg' = <<bucket_width, F(h)>> /\ ret' = NaN
    /\ UNCHANGED <<inserted, s2, regVars, mordorVars>>

(* Operations on the bivariate accumulator under test *)

Stats2Reset ==
    /\ s2' = stats2_reset
    /\ points' = EmptyBag
    /\ op' = "stats2_reset" /\ arg' = <<>> /\ ret' = NaN
    /\ UNCHANGED <<s, inserted, hist, slope_dst, yint_dst, mordorVars>>

\* stats2_insert on an accumulator that has accepted fewer than max points
Stats2Insert(x, y, max) ==
    /\ (isfinite(x) /\ isfinite(y)) => s2.count < max
    /\ s2' = stats2_insert(s2, x, y)
    /\ points' = IF isfinite(x) /\ isfinite(y) THEN points (+) SetToBag({<<x, y>>}) ELSE points
    /\ op' = "stats2_insert" /\ arg' = <<x, y>> /\ ret' = NaN
    /\ UNCHANGED <<s, inserted, hist, slope_dst, yint_dst, mordorVars>>

\* stats2_linear_regression(&s2, &slope_dst, &yint_dst), either pointer possibly NULL
Stats2LinearRegression(slope_given, yint_given) ==
    /\ \E r \in {stats2_linear_regression(s2, slope_given, yint_given,
                                           [slope |-> slope_dst, yint |-> yint_dst])} :
           /\ ret' = F(r.ret)
           /\ slope_dst' = r.slope
           /\ yint_dst' = r.yint
    /\ op' = "stats2_linear_regression" /\ arg' = <<slope_given, yint_given>>
    /\ UNCHANGED <<s, inserted, s2, points, hist, mordorVars>>

-----------------------------------------------------------------------------
(* struct mordor: table of mountains, cumulative stats and histogram,      *)
(* shared bucket_size, dirty flag.  A mountain is [stat, hist, dirty].     *)
(* The ghost field heap counts what the collector holds on the C heap:     *)
(* histograms (histogram_create without histogram_delete) and buffers      *)
(* of values (stats_init without stats_free).                              *)

\* enum mordor_style
MORDOR_STYLE_CLASSIC == 0
MORDOR_STYLE_CLEAN == 1

\* enum mordor_sortby
MORDOR_SORTBY_NONE == 0
MORDOR_SORTBY_MEAN == 1
MORDOR_SORTBY_KEY == 2

DEFAULT_MORDOR_STYLE == MORDOR_STYLE_CLEAN
DEFAULT_MORDOR_SORTBY == MORDOR_SORTBY_MEAN

mordor_create ==
    [table |-> <<>>, keys |-> <<>>, cumulative_stats |-> stats_init,
     cumulative_hist |-> NULL, bucket_size |-> F(0), dirty |-> TRUE,
     style |-> DEFAULT_MORDOR_STYLE, sortby |-> DEFAULT_MORDOR_SORTBY,
     heap |-> [histograms |-> 0, buffers |-> 1]]

\* the mountain of key after the lookup-or-create at the head of mordor_insert
mordor_lookup_or_create(m, key) ==
    IF key \in DOMAIN m.table
    THEN m.table[key]
    ELSE [stat |-> stats_init, hist |-> NULL, dirty |-> TRUE]

mordor_insert(m, key, value) ==
    LET mtn == mordor_lookup_or_create(m, key)
        new == [mtn EXCEPT !.stat = stats_insert(mtn.stat, value), !.dirty = TRUE]
    IN  [m EXCEPT !.table = [k \in (DOMAIN m.table) \cup {key} |->
                                IF k = key THEN new ELSE m.table[k]],
                  !.keys = IF key \in DOMAIN m.table THEN m.keys ELSE Append(m.keys, key),
                  !.cumulative_stats = stats_insert(m.cumulative_stats, value),
                  !.dirty = TRUE,
                  !.heap = IF key \in DOMAIN m.table
                           THEN m.heap
                           ELSE [m.heap EXCEPT !.buffers = @ + 1]]

\* the loop body skipping a mountain on its histogram's bucket size alone
mordor_build_mountain_ignoring_dirty(mtn, shared) ==
    IF mtn.hist # NULL /\ FEq(histogram_bucket_size(mtn.hist), shared)
    THEN mtn
    ELSE LET b == stats_build_histogram(mtn.stat, shared, STATS_KEEP_OUTLIERS)
         IN  [stat |-> b.s, hist |-> b.hist, dirty |-> FALSE]

\* the skip test without the comparison of bucket sizes
mountain_is_current_whatever_width(mtn, shared) ==
    ~mtn.dirty /\ mtn.hist # NULL

\* the test on which the loop of mordor_build_histograms skips a mountain
mountain_is_current(mtn, shared) ==
    ~mtn.dirty /\ mtn.hist # NULL /\ FEq(histogram_bucket_size(mtn.hist), shared)

\* one pass of the loop of mordor_build_histograms over a mountain: the new
\* histogram is stored over the old pointer
mordor_build_mountain(mtn, shared) ==
    IF mountain_is_current(mtn, shared)
    THEN mtn
    ELSE LET b == stats_build_histogram(mtn.stat, shared, STATS_KEEP_OUTLIERS)
         IN  [stat |-> b.s, hist |-> b.hist, dirty |-> FALSE]

\* mordor_build_histograms testing neither m->dirty nor the state of a mountain
mordor_build_histograms_rebuilding_all(m) ==
    LET ideal == stats_ideal_bucket_size(m.cumulative_stats)
        cum == stats_build_histogram(ideal.s, ideal.ret, STATS_KEEP_OUTLIERS)
        built == [k \in DOMAIN m.table |->
                     LET b == stats_build_histogram(m.table[k].stat, ideal.ret, STATS_KEEP_OUTLIERS)
                     IN  [stat |-> b.s, hist |-> b.hist, dirty |-> FALSE]]
        deleted == IF m.cumulative_hist # NULL THEN 1 ELSE 0
        created == (IF cum.hist # NULL THEN 1 ELSE 0)
                   + Cardinality({k \in DOMAIN m.table : built[k].hist # NULL})
    IN  [m EXCEPT !.bucket_size = ideal.ret,
                  !.cumulative_stats = cum.s,
                  !.cumulative_hist = cum.hist,
                  !.table = built,
                  !.dirty = FALSE,
                  !.heap = [@ EXCEPT !.histograms = @ - deleted + created]]

\* what one refresh computes: the shared bucket size, the cumulative histogram
\* and every mountain after its pass of the loop
rebuilt(m, ideal) ==
    [bucket_size |-> ideal.ret,
     cum |-> stats_build_histogram(ideal.s, ideal.ret, STATS_KEEP_OUTLIERS),
     table |-> [k \in DOMAIN m.table |-> mordor_build_mountain(m.table[k], ideal.ret)]]

\* the collector after a refresh that computed b: the old cumulative histogram
\* is deleted, the cumulative one and one for each mountain not skipped are created
refreshed(m, b) ==
    [m EXCEPT !.bucket_size = b.bucket_size,
              !.cumulative_stats = b.cum.s,
              !.cumulative_hist = b.cum.hist,
              !.table = b.table,
              !.dirty = FALSE,
              !.heap = [@ EXCEPT !.histograms =
                  @ - (IF m.cumulative_hist # NULL THEN 1 ELSE 0)
                    + (IF b.cum.hist # NULL THEN 1 ELSE 0)
                    + Cardinality({k \in DOMAIN m.table :
                          /\ ~mountain_is_current(m.table[k], b.bucket_size)
                          /\ b.table[k].hist # NULL})]]

mordor_build_histograms(m) ==
    IF ~m.dirty
    THEN m
    ELSE CHOOSE r \in {refreshed(m, b) :
                           b \in {rebuilt(m, ideal) :
                                      ideal \in {stats_ideal_bucket_size(m.cumulative_stats)}}} : TRUE

\* mordor_delete: what is left on the heap after every mountain's buffer and histogram
\* and the cumulative buffer and histogram have been released
mordor_delete(m) ==
    LET mountain_hists == Cardinality({k \in DOMAIN m.table : m.table[k].hist # NULL})
        cumulative == IF m.cumulative_hist # NULL THEN 1 ELSE 0
    IN  [histograms |-> m.heap.histograms - mountain_hists - cumulative,
         buffers |-> m.heap.buffers - Cardinality(DOMAIN m.table) - 1]

\* the collector held by the variables
M ==
    [table |-> table, keys |-> keys, cumulative_stats |-> cumulative_stats,
     cumulative_hist |-> cumulative_hist, bucket_size |-> bucket_size, dirty |-> dirty,
     style |-> style, sortby |-> sortby, heap |-> heap]

SetM(m) ==
    \E c \in {m} :
        /\ table' = c.table
        /\ keys' = c.keys
        /\ cumulative_stats' = c.cumulative_stats
        /\ cumulative_hist' = c.cumulative_hist
        /\ bucket_size' = c.bucket_size
        /\ dirty' = c.dirty
        /\ style' = c.style
        /\ sortby' = c.sortby
        /\ heap' = c.heap

\* keys and values given to the collector
Keys == {"A", "B"}
MordorValues == {F(-2), F(0), F(1), NaN}

\* mordor_insert called outside mordor_plot, at most max times on one collector
MordorInsert(key, value, max) ==
    /\ pc = "idle"
    /\ calls < max
    /\ SetM(mordor_insert(M, key, value))
    /\ calls' = calls + 1
    /\ op' = "mordor_insert" /\ arg' = <<>> /\ ret' = NaN
    /\ UNCHANGED <<s, inserted, s2, regVars, hist, plotVars>>

MordorBuildHistograms ==
    /\ pc = "idle"
    /\ SetM(mordor_build_histograms(M))
    /\ op' = "mordor_build_histograms" /\ arg' = <<>> /\ ret' = NaN
    /\ UNCHANGED <<s, inserted, s2, regVars, hist, calls, plotVars>>

\* mordor_delete called outside mordor_plot; the collector is used no more
MordorDelete ==
    /\ pc = "idle"
    /\ heap' = mordor_delete(M)
    /\ pc' = "deleted"
    /\ op' = "mordor_delete" /\ arg' = <<>> /\ ret' = NaN
    /\ UNCHANGED <<s, inserted, s2, regVars, hist, table, keys, cumulative_stats,
                   cumulative_hist, bucket_size, dirty, style, sortby, calls, sorted,
                   cumulative_buckets, mtn_start, mtn_finish, state, bucket, pos, out>>

-----------------------------------------------------------------------------
(* mordor_plot: create_sorted_keys, then the data file in one of two styles. *)
(* A line of the data file is [kind, pos, all, cols]: its first field, its   *)
(* "(all)" field and its fields of the mountains; a field printed "NAN" is   *)
(* the double NaN, a count c is the double F(c).  kind is not printed: it    *)
(* tells which fprintf sequence wrote the line.                              *)

\* strcmp of two keys, by their first character
key_code(key) ==
    CASE key = "A" -> 65
      [] key = "B" -> 66
      [] key = "C" -> 67

strcmp(a, b) == key_code(a) - key_code(b)

qsort_by_mean(m, a, b) ==
    LET A == stats_mean(m.table[a].stat).ret
        B == stats_mean(m.table[b].stat).ret
    IN  (IF FGt(A, B) THEN 1 ELSE 0) - (IF FLt(A, B) THEN 1 ELSE 0)

qsort_by_key(a, b) == strcmp(a, b)

\* the orders in which hash_table_firstkey/hash_table_nextkey can yield the keys of a
\* table: the table keeps no order of its own
hash_table_orders(tbl) ==
    {q \in [1..Cardinality(DOMAIN tbl) -> DOMAIN tbl] :
        \A i, j \in DOMAIN q : i # j => q[i] # q[j]}

\* the comparison function qsort is given under a sorting style
qsort_compar(m, a, b) ==
    IF m.sortby = MORDOR_SORTBY_MEAN THEN qsort_by_mean(m, a, b) ELSE qsort_by_key(a, b)

\* the arrays qsort can leave: the pairs rearranged so that no element is followed by
\* one that compares less (qsort is not stable, and with a comparison that is not an
\* ordering this is all it ensures)
qsort(m, pairs) ==
    {q \in hash_table_orders(m.table) :
        \A i \in 1..(Len(pairs) - 1) : qsort_compar(m, q[i], q[i + 1]) <= 0}

\* the arrays create_sorted_keys can return when the table yields its keys as pairs
create_sorted_keys(m, pairs) ==
    IF m.sortby \in {MORDOR_SORTBY_MEAN, MORDOR_SORTBY_KEY}
    THEN qsort(m, pairs)
    ELSE {pairs}

Line(kind, p, all, cols) == [kind |-> kind, pos |-> p, all |-> all, cols |-> cols]

\* the header line naming the keys in the opposite order
RECURSIVE reversed(_)
reversed(q) == IF q = <<>> THEN <<>> ELSE Append(reversed(Tail(q)), Head(q))
datafile_header_reversed(m, keyorder) ==
    Line("header", m.bucket_size, "(all)", reversed(keyorder))

\* the header line of both styles
datafile_header(m, keyorder) == Line("header", m.bucket_size, "(all)", keyorder)

\* states of a mountain in the clean style
STATE_NOT_STARTED == 0
STATE_STARTED == 1
STATE_FINISHED == 2

\* start[i] and finish[i] of mordor_datafile_clean
clean_start(h) == IF histogram_size(h) = 0 THEN F(0) ELSE histogram_buckets(h)[1]
clean_finish(h) ==
    IF histogram_size(h) = 0 THEN F(0) ELSE histogram_buckets(h)[histogram_size(h)]

\* the switch of write_row putting a started mountain back to STATE_NOT_STARTED
write_row_mountain_restarting(mtn_state, p, width, first, last, count) ==
    IF mtn_state = STATE_FINISHED
    THEN [state |-> STATE_FINISHED,
          col |-> IF FLt(FSub(p, FMul(<<3, 2>>, width)), last) THEN F(0) ELSE NaN]
    ELSE IF mtn_state = STATE_NOT_STARTED /\ FLt(FAdd(p, FMul(<<3, 2>>, width)), first)
         THEN [state |-> STATE_NOT_STARTED, col |-> NaN]
         ELSE [state |-> IF FGt(p, last) THEN STATE_FINISHED ELSE STATE_NOT_STARTED,
               col |-> F(count)]

\* the switch of write_row starting a mountain only 0.5 bucket sizes ahead
write_row_mountain_half_reach(mtn_state, p, width, first, last, count) ==
    IF mtn_state = STATE_FINISHED
    THEN [state |-> STATE_FINISHED,
          col |-> IF FLt(FSub(p, FMul(<<3, 2>>, width)), last) THEN F(0) ELSE NaN]
    ELSE IF mtn_state = STATE_NOT_STARTED /\ FLt(FAdd(p, FMul(<<1, 2>>, width)), first)
         THEN [state |-> STATE_NOT_STARTED, col |-> NaN]
         ELSE [state |-> IF FGt(p, last) THEN STATE_FINISHED ELSE STATE_STARTED,
               col |-> F(count)]

\* the switch of write_row for one mountain: [state |-> its state afterwards,
\* col |-> the field written], count being the mountain's count at the position p
write_row_mountain(mtn_state, p, width, first, last, count) ==
    IF mtn_state = STATE_FINISHED
    THEN [state |-> STATE_FINISHED,
          col |-> IF FLt(FSub(p, FMul(<<3, 2>>, width)), last) THEN F(0) ELSE NaN]
    ELSE IF mtn_state = STATE_NOT_STARTED /\ FLt(FAdd(p, FMul(<<3, 2>>, width)), first)
         THEN [state |-> STATE_NOT_STARTED, col |-> NaN]
         ELSE [state |-> IF FGt(p, last) THEN STATE_FINISHED ELSE STATE_STARTED,
               col |-> F(count)]

\* every histogram the data file writers read exists
histograms_exist ==
    /\ cumulative_hist # NULL
    /\ \A k \in DOMAIN table : table[k].hist # NULL

\* mordor_plot up to the call of the data file writer: the caller has set the public
\* fields style and sortby of the collector to st and sb
MordorPlot(st, sb) ==
    /\ pc \in {"idle", "done"}
    /\ \E m \in {mordor_build_histograms([M EXCEPT !.style = st, !.sortby = sb])} :
           /\ SetM(m)
           /\ \E pairs \in hash_table_orders(m.table) :
                  sorted' \in create_sorted_keys(m, pairs)
    /\ pc' = "datafile"
    /\ cumulative_buckets' = <<>> /\ mtn_start' = <<>> /\ mtn_finish' = <<>>
    /\ state' = <<>> /\ bucket' = 0 /\ pos' = NaN /\ out' = <<>>
    /\ op' = "mordor_plot" /\ arg' = <<>> /\ ret' = NaN
    /\ UNCHANGED <<s, inserted, s2, regVars, hist, calls>>

\* mordor_datafile_clean up to the loop over the buckets: header, start[], finish[],
\* state[] and the first padding line.  A histogram that does not exist is dereferenced
\* inside the histogram library, and such a call is not followed further.
DatafileCleanBegin ==
    /\ pc = "datafile" /\ style # MORDOR_STYLE_CLASSIC
    /\ histograms_exist
    /\ LET num_mountains == Len(sorted)
           cb == histogram_buckets(cumulative_hist)
           started == [mtn \in 1..num_mountains |->
                          FGe(FAdd(cb[1], FMul(<<1, 2>>, bucket_size)),
                              clean_start(table[sorted[mtn]].hist))]
       IN  /\ cumulative_buckets' = cb
           /\ mtn_start' = [mtn \in 1..num_mountains |-> clean_start(table[sorted[mtn]].hist)]
           /\ mtn_finish' = [mtn \in 1..num_mountains |-> clean_finish(table[sorted[mtn]].hist)]
           /\ state' = [mtn \in 1..num_mountains |->
                           IF started[mtn] THEN STATE_STARTED ELSE STATE_NOT_STARTED]
           /\ out' = <<datafile_header(M, sorted),
                       Line("padding", FSub(cb[1], bucket_size), 0,
                            [mtn \in 1..num_mountains |->
                                IF started[mtn] THEN F(0) ELSE NaN])>>
           /\ bucket' = 0
           /\ pos' = cb[1]
    /\ pc' = "write_row"
    /\ UNCHANGED <<s, inserted, s2, regVars, op, arg, ret, hist, table, keys, cumulative_stats,
                   cumulative_hist, bucket_size, dirty, style, sortby, calls, heap, sorted>>

\* one pass from the label write_row to the end of the loop body: a line is written
\* at pos, then the loop jumps back to write_row with pos += bucket_size or goes on
\* to the next bucket
DatafileCleanRow ==
    /\ pc \in {"write_row", "goto_write_row"}
    /\ Len(out) < MaxLines
    /\ LET num_buckets == Len(cumulative_buckets)
           written == [mtn \in 1..Len(sorted) |->
                          write_row_mountain(state[mtn], pos, bucket_size,
                                             mtn_start[mtn], mtn_finish[mtn],
                                             histogram_count(table[sorted[mtn]].hist, pos))]
           jump == /\ bucket < num_buckets - 1
                   /\ FLt(FAdd(pos, FMul(<<3, 2>>, bucket_size)),
                          cumulative_buckets[bucket + 2])
       IN  /\ out' = Append(out, Line(IF pc = "write_row" THEN "data" ELSE "synthetic",
                                      pos, histogram_count(cumulative_hist, pos),
                                      [mtn \in 1..Len(sorted) |-> written[mtn].col]))
           /\ state' = [mtn \in 1..Len(sorted) |-> written[mtn].state]
           /\ IF jump
              THEN /\ pos' = FAdd(pos, bucket_size)
                   /\ bucket' = bucket
                   /\ pc' = "goto_write_row"
              ELSE /\ bucket' = bucket + 1
                   /\ IF bucket + 1 < num_buckets
                      THEN pos' = cumulative_buckets[bucket + 2] /\ pc' = "write_row"
                      ELSE pos' = pos /\ pc' = "last_line"
    /\ UNCHANGED <<s, inserted, s2, regVars, op, arg, ret, hist, table, keys, cumulative_stats,
                   cumulative_hist, bucket_size, dirty, style, sortby, calls, heap, sorted,
                   cumulative_buckets, mtn_start, mtn_finish>>

\* the last padding line of mordor_datafile_clean written at the last bucket itself
DatafileCleanEnd_at_last_bucket ==
    /\ pc = "last_line" /\ style # MORDOR_STYLE_CLASSIC
    /\ out' = Append(out, Line("padding",
                               cumulative_buckets[Len(cumulative_buckets)],
                               0,
                               [mtn \in 1..Len(sorted) |->
                                   IF state[mtn] = STATE_STARTED THEN F(0) ELSE NaN]))
    /\ pc' = "done"
    /\ UNCHANGED <<s, inserted, s2, regVars, op, arg, ret, hist, table, keys, cumulative_stats,
                   cumulative_hist, bucket_size, dirty, style, sortby, calls, heap, sorted,
                   cumulative_buckets, mtn_start, mtn_finish, state, bucket, pos>>

\* the last padding line of mordor_datafile_clean and its clean up
DatafileCleanEnd ==
    /\ pc = "last_line" /\ style # MORDOR_STYLE_CLASSIC
    /\ out' = Append(out, Line("padding",
                               FAdd(cumulative_buckets[Len(cumulative_buckets)], bucket_size),
                               0,
                               [mtn \in 1..Len(sorted) |->
                                   IF state[mtn] = STATE_STARTED THEN F(0) ELSE NaN]))
    /\ pc' = "done"
    /\ UNCHANGED <<s, inserted, s2, regVars, op, arg, ret, hist, table, keys, cumulative_stats,
                   cumulative_hist, bucket_size, dirty, style, sortby, calls, heap, sorted,
                   cumulative_buckets, mtn_start, mtn_finish, state, bucket, pos>>

\* mordor_datafile_classic up to the loop over the buckets: header and first padding line
DatafileClassicBegin ==
    /\ pc = "datafile" /\ style = MORDOR_STYLE_CLASSIC
    /\ histograms_exist
    /\ LET cb == histogram_buckets(cumulative_hist)
       IN  /\ cumulative_buckets' = cb
           /\ out' = <<datafile_header(M, sorted),
                       Line("padding", FSub(cb[1], bucket_size), 0,
                            [column \in 1..Len(sorted) |-> F(0)])>>
    /\ bucket' = 0
    /\ pc' = "classic_row"
    /\ UNCHANGED <<s, inserted, s2, regVars, op, arg, ret, hist, table, keys, cumulative_stats,
                   cumulative_hist, bucket_size, dirty, style, sortby, calls, heap, sorted,
                   mtn_start, mtn_finish, state, pos>>

\* the loop of mordor_datafile_classic writing the cumulative count in every column
DatafileClassicRow_cumulative_columns ==
    /\ pc = "classic_row"
    /\ LET bucket_start == cumulative_buckets[bucket + 1]
       IN  out' = Append(out, Line("data", bucket_start,
                                   histogram_count(cumulative_hist, bucket_start),
                                   [column \in 1..Len(sorted) |->
                                       F(histogram_count(cumulative_hist, bucket_start))]))
    /\ bucket' = bucket + 1
    /\ pc' = IF bucket + 1 < Len(cumulative_buckets) THEN "classic_row" ELSE "last_line"
    /\ UNCHANGED <<s, inserted, s2, regVars, op, arg, ret, hist, table, keys, cumulative_stats,
                   cumulative_hist, bucket_size, dirty, style, sortby, calls, heap, sorted,
                   cumulative_buckets, mtn_start, mtn_finish, state, pos>>

\* one pass of the loop of mordor_datafile_classic over the buckets
DatafileClassicRow ==
    /\ pc = "classic_row"
    /\ LET bucket_start == cumulative_buckets[bucket + 1]
       IN  out' = Append(out, Line("data", bucket_start,
                                   histogram_count(cumulative_hist, bucket_start),
                                   [column \in 1..Len(sorted) |->
                                       F(histogram_count(table[sorted[column]].hist,
                                                         bucket_start))]))
    /\ bucket' = bucket + 1
    /\ pc' = IF bucket + 1 < Len(cumulative_buckets) THEN "classic_row" ELSE "last_line"
    /\ UNCHANGED <<s, inserted, s2, regVars, op, arg, ret, hist, table, keys, cumulative_stats,
                   cumulative_hist, bucket_size, dirty, style, sortby, calls, heap, sorted,
                   cumulative_buckets, mtn_start, mtn_finish, state, pos>>

\* the last padding line of mordor_datafile_classic and its clean up
DatafileClassicEnd ==
    /\ pc = "last_line" /\ style = MORDOR_STYLE_CLASSIC
    /\ out' = Append(out, Line("padding",
                               FAdd(cumulative_buckets[Len(cumulative_buckets)], bucket_size),
                               0,
                               [column \in 1..Len(sorted) |-> F(0)]))
    /\ pc' = "done"
    /\ UNCHANGED <<s, inserted, s2, regVars, op, arg, ret, hist, table, keys, cumulative_stats,
                   cumulative_hist, bucket_size, dirty, style, sortby, calls, heap, sorted,
                   cumulative_buckets, mtn_start, mtn_finish, state, bucket, pos>>

\* key and value pairs given to a collector that is plotted
PlotRecords ==
    {<<"A", F(-3)>>, <<"A", F(0)>>, <<"A", F(4)>>,
     <<"B", F(0)>>, <<"B", F(4)>>, <<"B", NaN>>,
     <<"C", F(0)>>}

\* the records of an input file: n lines of each of "A 0", "A 10", "B 20", "B 30"
RECURSIVE scenario_records(_)
scenario_records(n) ==
    IF n = 0 THEN <<>>
    ELSE scenario_records(n - 1)
             \o << <<"A", F(0)>>, <<"A", F(10)>>, <<"B", F(20)>>, <<"B", F(30)>> >>

\* input files given to a collector: 9 copies of the four records (bucket size
\* 30/6 = 5), and the four records with one record of a third key whose value is the
\* minimum (bucket sizes (30 - 20)/2 = 5, (30 - 25)/2 = 5/2, (30 - 26)/2 = 2)
ScenarioFiles ==
    {scenario_records(9)}
        \cup {scenario_records(1) \o << <<"C", v>> >> : v \in {F(-20), F(-25), F(-26)}}

\* the loop of the caller over the lines of its input, from record i on
RECURSIVE mordor_insert_all(_, _, _)
mordor_insert_all(m, records, i) ==
    IF i > Len(records) THEN m
    ELSE mordor_insert_all(mordor_insert(m, records[i][1], records[i][2]), records, i + 1)

\* the caller reads a whole input file into a new collector
MordorLoad(records) ==
    /\ pc = "idle" /\ calls = 0
    /\ SetM(mordor_insert_all(M, records, 1))
    /\ calls' = Len(records)
    /\ op' = "mordor_insert" /\ arg' = <<>> /\ ret' = NaN
    /\ UNCHANGED <<s, inserted, s2, regVars, hist, plotVars>>

InitAll ==
    /\ s = stats_init
    /\ inserted = EmptyBag
    /\ s2 = stats2_init
    /\ points = EmptyBag
    /\ slope_dst = NaN /\ yint_dst = NaN
    /\ op = "init" /\ arg = <<>> /\ ret = NaN /\ hist = NULL
    /\ table = mordor_create.table
    /\ keys = mordor_create.keys
    /\ cumulative_stats = mordor_create.cumulative_stats
    /\ cumulative_hist = mordor_create.cumulative_hist
    /\ bucket_size = mordor_create.bucket_size
    /\ dirty = mordor_create.dirty
    /\ style = mordor_create.style
    /\ sortby = mordor_create.sortby
    /\ heap = mordor_create.heap
    /\ calls = 0
    /\ pc = "idle"
    /\ sorted = <<>> /\ cumulative_buckets = <<>>
    /\ mtn_start = <<>> /\ mtn_finish = <<>> /\ state = <<>>
    /\ bucket = 0 /\ pos = NaN
    /\ out = <<>>

-----------------------------------------------------------------------------
(* The accumulator alone: any sequence of init, insert, reset, merge, queries *)

NextStats ==
    \/ StatsInit
    \/ StatsReset
    \/ \E value \in StatValues \cup NonFinite : StatsInsert(value, MaxCount)
    \/ \E q \in MergeSources : StatsMerge(q)
    \/ StatsQuery("stats_mean")
    \/ StatsQuery("stats_variance")
    \/ StatsQuery("stats_minimum")
    \/ StatsQuery("stats_maximum")
    \/ StatsQuery("stats_median")
    \/ StatsQuery("stats_Q1")
    \/ StatsQuery("stats_Q3")
    \/ StatsQuery("stats_whisker_low")
    \/ StatsQuery("stats_whisker_high")
    \/ \E bucket_width \in BucketWidths, h \in {STATS_KEEP_OUTLIERS, STATS_DISCARD_OUTLIERS} :
           StatsBuildHistogram(bucket_width, h)

SpecStats == InitAll /\ [][NextStats]_vars

\* values whose sums need more bits than a significand has
OrderValues == {F(pow2(SignificandBits)), F(1), F(3)}

\* one accumulator fed such values in any order, queried at any time in between
NextOrder ==
    \/ StatsReset
    \/ \E value \in OrderValues : StatsInsert(value, MaxOrderCount)
    \/ StatsQuery("stats_mean")
    \/ StatsQuery("stats_minimum")
    \/ StatsQuery("stats_maximum")
    \/ StatsQuery("stats_median")
    \/ StatsQuery("stats_Q1")
    \/ StatsQuery("stats_Q3")
    \/ StatsQuery("stats_whisker_low")
    \/ StatsQuery("stats_whisker_high")
    \/ \E bucket_width \in BucketWidths, h \in {STATS_KEEP_OUTLIERS, STATS_DISCARD_OUTLIERS} :
           StatsBuildHistogram(bucket_width, h)

SpecOrder == InitAll /\ [][NextOrder]_vars

(* Insertion into both accumulators *)

NextInsert ==
    \/ StatsReset
    \/ \E value \in StatValues \cup NonFinite : StatsInsert(value, MaxCount2)
    \/ Stats2Reset
    \/ \E x, y \in Stat2Values \cup NonFinite : Stats2Insert(x, y, MaxCount2)

SpecInsert == InitAll /\ [][NextInsert]_vars

(* The bivariate accumulator: points inserted, then fitted to a line *)

NextRegression ==
    \/ Stats2Reset
    \/ \E p \in RegressionPoints : Stats2Insert(p[1], p[2], MaxPoints)
    \/ \E slope_given, yint_given \in BOOLEAN : Stats2LinearRegression(slope_given, yint_given)

SpecRegression == InitAll /\ [][NextRegression]_vars

(* The collector: any sequence of mordor_insert and histogram rebuilds *)

NextMordor ==
    \/ \E key \in Keys, value \in MordorValues : MordorInsert(key, value, MaxCalls)
    \/ MordorBuildHistograms

SpecMordor == InitAll /\ [][NextMordor]_vars

(* The collector from mordor_create to mordor_delete *)

NextLifetime ==
    \/ \E key \in Keys, value \in MordorValues : MordorInsert(key, value, MaxCalls)
    \/ MordorBuildHistograms
    \/ MordorDelete

SpecLifetime == InitAll /\ [][NextLifetime]_vars

(* The collector plotted: mordor_insert calls, then mordor_plot, line by line *)

NextPlot ==
    \/ \E r \in PlotRecords : MordorInsert(r[1], r[2], MaxPlotCalls)
    \/ \E st \in {MORDOR_STYLE_CLASSIC, MORDOR_STYLE_CLEAN},
          sb \in {MORDOR_SORTBY_NONE, MORDOR_SORTBY_MEAN, MORDOR_SORTBY_KEY} :
           MordorPlot(st, sb)
    \/ DatafileCleanBegin
    \/ DatafileCleanRow
    \/ DatafileCleanEnd
    \/ DatafileClassicBegin
    \/ DatafileClassicRow
    \/ DatafileClassicEnd

SpecPlot == InitAll /\ [][NextPlot]_vars

(* Whole input files plotted *)

NextScenario ==
    \/ \E records \in ScenarioFiles : MordorLoad(records)
    \/ \E st \in {MORDOR_STYLE_CLASSIC, MORDOR_STYLE_CLEAN},
          sb \in {MORDOR_SORTBY_NONE, MORDOR_SORTBY_MEAN, MORDOR_SORTBY_KEY} :
           MordorPlot(st, sb)
    \/ DatafileCleanBegin
    \/ DatafileCleanRow
    \/ DatafileCleanEnd
    \/ DatafileClassicBegin
    \/ DatafileClassicRow
    \/ DatafileClassicEnd

SpecScenario == InitAll /\ [][NextScenario]_vars

-----------------------------------------------------------------------------
(* Properties of the collector *)

\* every histogram the collector holds
MordorHists ==
    {table[k].hist : k \in DOMAIN table} \cup {cumulative_hist}

\* count of a histogram pointer at a position, none for no histogram
CountAt(h, b) == IF h = NULL THEN 0 ELSE histogram_count(h, b)

RECURSIVE SumOverKeys(_, _)
SumOverKeys(ks, b) ==
    IF ks = {} THEN 0
    ELSE LET k == CHOOSE x \in ks : TRUE
         IN  CountAt(table[k].hist, b) + SumOverKeys(ks \ {k}, b)

\* b is 0 plus an integer multiple of the width w
IsMultipleOf(b, w) ==
    /\ isfinite(b) /\ isfinite(w) /\ w # F(0)
    /\ FDiv(b, w)[2] = 1

\* C1: after mordor_build_histograms returns, every series of the collector has a
\* histogram and its bucket width equals the shared bucket_size.
C1_EverySeriesHasSharedWidth ==
    ~dirty => \A k \in DOMAIN table :
                  /\ table[k].hist # NULL
                  /\ FEq(histogram_bucket_size(table[k].hist), bucket_size)

\* C2: after a rebuild every occupied bucket start of every series' histogram and of
\* the cumulative histogram is 0 plus an integer multiple of the shared bucket_size.
C2_BucketsAligned ==
    ~dirty => \A h \in MordorHists \ {NULL} :
                  /\ FEq(histogram_bucket_size(h), bucket_size)
                  /\ \A b \in DOMAIN h.buckets : IsMultipleOf(b, bucket_size)

\* C3: whenever the cumulative accumulator holds a finite value, the bucket_size a
\* rebuild takes from stats_ideal_bucket_size is strictly positive.
C3_BucketSizePositive ==
    (~dirty /\ cumulative_stats.count >= 1) => FGt(bucket_size, F(0))

\* C4: after a rebuild, at every bucket position the cumulative histogram's count is
\* the sum of the series' histogram counts at that position.
C4_CumulativeIsSumOfSeries ==
    ~dirty => \A h \in MordorHists \ {NULL} : \A b \in DOMAIN h.buckets :
                  CountAt(cumulative_hist, b) = SumOverKeys(DOMAIN table, b)

\* two series share an occupied bucket and the cumulative histogram has another one
C4_Witness ==
    /\ ~dirty /\ op = "mordor_build_histograms"
    /\ DOMAIN table = Keys
    /\ cumulative_hist # NULL /\ histogram_size(cumulative_hist) >= 2
    /\ \E b \in DOMAIN cumulative_hist.buckets :
           /\ CountAt(table["A"].hist, b) >= 1
           /\ CountAt(table["B"].hist, b) >= 1

-----------------------------------------------------------------------------
(* Properties of the accumulators *)

RECURSIVE BagSum(_, _)
\* sum of the copies in the bag B of the values in vs
BagSum(B, vs) ==
    IF vs = {} THEN F(0)
    ELSE LET v == CHOOSE x \in vs : TRUE
         IN  FAdd(FMul(F(CopiesIn(v, B)), v), BagSum(B, vs \ {v}))

RECURSIVE BagSumSquares(_, _)
\* sum of the squares of the copies in the bag B of the values in vs
BagSumSquares(B, vs) ==
    IF vs = {} THEN F(0)
    ELSE LET v == CHOOSE x \in vs : TRUE
         IN  FAdd(FMul(F(CopiesIn(v, B)), FMul(v, v)), BagSumSquares(B, vs \ {v}))

ScalarQueries ==
    {"stats_mean", "stats_minimum", "stats_maximum", "stats_median", "stats_Q1",
     "stats_Q3", "stats_whisker_low", "stats_whisker_high"}

\* C5: stats_insert of NaN or +-Infinity changes nothing of the accumulator (count,
\* sum, sum_squares, stored values, dirty, hence minimum and maximum), and
\* stats2_insert of a pair with a non-finite component changes nothing of the
\* bivariate accumulator.
C5_NonFiniteDropped ==
    [][ /\ (op' = "stats_insert" /\ ~isfinite(arg'[1]))
            => (s' = s /\ stats_minimum(s').ret = stats_minimum(s).ret
                       /\ stats_maximum(s').ret = stats_maximum(s).ret)
        /\ (op' = "stats2_insert" /\ (~isfinite(arg'[1]) \/ ~isfinite(arg'[2])))
            => s2' = s2 ]_vars

\* an infinite value was given to a non-empty accumulator, the bivariate one non-empty too
C5_Witness ==
    /\ op = "stats_insert" /\ isinf(arg[1])
    /\ s.count >= 1 /\ s2.count >= 1

C7_EmptyGivesNaN ==
    [][ s.count = 0 =>
          /\ op' \in ScalarQueries => (isnan(ret') /\ s' = s)
          /\ op' = "stats_build_histogram" => (hist' = NULL /\ s' = s) ]_vars

\* the low whisker was asked of an empty accumulator
C7_Witness ==
    /\ op = "stats_whisker_low" /\ s.count = 0 /\ isnan(ret)
    /\ s.values_alloc = STATS_VALUES_INITSIZE

\* C8: for count >= 1, whisker_low <= Q1 and whisker_high >= Q3.
C8_WhiskersOutsideQuartiles ==
    s.count >= 1 =>
        LET wl == stats_whisker_low(s)
            q1 == stats_Q1(wl.s)
            wh == stats_whisker_high(q1.s)
            q3 == stats_Q3(wh.s)
        IN  FLe(wl.ret, q1.ret) /\ FGe(wh.ret, q3.ret)

\* the low whisker was asked where the lowest value is an outlier below it
C8_Witness ==
    /\ op = "stats_whisker_low" /\ s.count >= 6
    /\ FLt(s.values[1], ret)
    /\ FLe(ret, stats_Q1(s).ret)

\* C9: for count >= 3, Q1 <= median <= Q3; for count = 1 all three are the value.
C9_QuartilesOrdered ==
    LET q1 == stats_Q1(s)
        md == stats_median(q1.s)
        q3 == stats_Q3(md.s)
    IN  /\ s.count >= 3 => (FLe(q1.ret, md.ret) /\ FLe(md.ret, q3.ret))
        /\ s.count = 1 => \A v \in BagToSet(inserted) :
                              q1.ret = v /\ md.ret = v /\ q3.ret = v

\* the median was asked of at least three values that are not all equal
C9_Witness ==
    /\ op = "stats_median" /\ s.count >= 3
    /\ FLt(stats_Q1(s).ret, ret) /\ FLt(ret, stats_Q3(s).ret)

\* C10: a histogram built from a non-empty accumulator keeping outliers holds every
\* stored value once: its bucket counts sum to count.
C10_KeepOutliersCountsAll ==
    (op = "stats_build_histogram" /\ arg[2] = F(STATS_KEEP_OUTLIERS) /\ s.count >= 1)
        => (hist # NULL /\ histogram_total_count(hist) = s.count)

\* a histogram keeping outliers was built over several buckets
C10_Witness ==
    /\ op = "stats_build_histogram" /\ arg[2] = F(STATS_KEEP_OUTLIERS)
    /\ s.count >= 4 /\ hist # NULL /\ histogram_size(hist) >= 3

RECURSIVE CopiesWithin(_, _, _, _, _)
\* number of copies in the bag B of the values in vs that lie in [low, high] and fall
\* in the bucket starting at b of the histogram h
CopiesWithin(B, vs, h, low_high, b) ==
    IF vs = {} THEN 0
    ELSE LET v == CHOOSE x \in vs : TRUE
             in_range == FGe(v, low_high[1]) /\ FLe(v, low_high[2])
         IN  (IF in_range /\ histogram_bucket_of(h, v) = b THEN CopiesIn(v, B) ELSE 0)
             + CopiesWithin(B, vs \ {v}, h, low_high, b)

\* C11: a histogram built from a non-empty accumulator discarding outliers counts, in
\* each bucket, exactly the stored values v with whisker_low <= v <= whisker_high that
\* fall in it, each once, so every occupied bucket [b, b + width) holds a value of
\* [whisker_low, whisker_high] and no value outside that range is counted.
C11_DiscardOutliersCountsInRange ==
    (op = "stats_build_histogram" /\ arg[2] = F(STATS_DISCARD_OUTLIERS) /\ s.count >= 1)
        => LET low == stats_whisker_low(s).ret
               high == stats_whisker_high(s).ret
               starts == {histogram_bucket_of(hist, v) : v \in BagToSet(inserted)}
           IN  /\ hist # NULL
               /\ DOMAIN hist.buckets \subseteq starts
               /\ \A b \in starts :
                      histogram_count(hist, b)
                          = CopiesWithin(inserted, BagToSet(inserted), hist, <<low, high>>, b)
               /\ \A b \in DOMAIN hist.buckets :
                      /\ FLe(b, high)
                      /\ FGt(FAdd(b, histogram_bucket_size(hist)), low)

\* a histogram discarding outliers was built and left a stored value out
C11_Witness ==
    /\ op = "stats_build_histogram" /\ arg[2] = F(STATS_DISCARD_OUTLIERS)
    /\ hist # NULL /\ histogram_total_count(hist) >= 1
    /\ histogram_total_count(hist) < s.count

-----------------------------------------------------------------------------
(* Properties of the data file *)

\* the lines of the data file below the header
Rows == {r \in DOMAIN out : out[r].kind # "header"}

\* C12: in a clean-style data file every key has one state of its own, set up anew by
\* each call: NOT_STARTED, or STARTED by the first padding line; from one line to the
\* next a state stays or moves one step along NOT_STARTED -> STARTED -> FINISHED, never
\* backward, and FINISHED stays FINISHED until the call ends.
C12_StateMonotonic ==
    [][ /\ (pc = "datafile" /\ pc' = "write_row")
            => (/\ DOMAIN state' = 1..Len(sorted)
                /\ \A mtn \in DOMAIN state' :
                       state'[mtn] \in {STATE_NOT_STARTED, STATE_STARTED})
        /\ (pc \in {"write_row", "goto_write_row", "last_line"}
                /\ style = MORDOR_STYLE_CLEAN /\ pc' # "datafile")
            => (/\ DOMAIN state' = DOMAIN state
                /\ \A mtn \in DOMAIN state :
                       /\ state[mtn] <= state'[mtn]
                       /\ state'[mtn] <= state[mtn] + 1
                       /\ state'[mtn] \in {STATE_NOT_STARTED, STATE_STARTED, STATE_FINISHED}
                       /\ state[mtn] = STATE_FINISHED => state'[mtn] = STATE_FINISHED) ]_vars

\* a clean-style data file is complete, one key began NOT_STARTED and ended FINISHED,
\* another ended STARTED
C12_Witness ==
    /\ pc = "done" /\ style = MORDOR_STYLE_CLEAN
    /\ \E i, j \in DOMAIN state :
           /\ isnan(out[2].cols[i]) /\ state[i] = STATE_FINISHED
           /\ state[j] = STATE_STARTED
           /\ \E r \in Rows : out[r].cols[i] = F(1)

\* the field a clean-style line at position p must hold for the key of column mtn:
\* NaN if p is more than 1.5 bucket sizes before the key's first bucket or after its
\* last one, else the key's count at p
clean_field(mtn, p) ==
    LET h == table[sorted[mtn]].hist
        reach == FMul(<<3, 2>>, bucket_size)
    IN  IF FGt(FSub(clean_start(h), p), reach) \/ FGt(FSub(p, clean_finish(h)), reach)
        THEN NaN
        ELSE F(histogram_count(h, p))

\* C13: in a clean-style data file, in every line below the header (padding lines
\* too) at position p, the field of a key is "NAN" exactly when p is more than
\* 1.5*bucket_size before the key's first occupied bucket or more than 1.5*bucket_size
\* after its last one, and is otherwise the key's count at p (0 for no bucket).
C13_PlaceholderExactlyWhenFar ==
    (style = MORDOR_STYLE_CLEAN /\ pc \in {"write_row", "goto_write_row", "last_line", "done"})
        => \A r \in Rows : \A mtn \in DOMAIN sorted :
               out[r].cols[mtn] = clean_field(mtn, out[r].pos)

\* the column of a key in the data file
RECURSIVE column_from(_, _)
column_from(key, mtn) == IF sorted[mtn] = key THEN mtn ELSE column_from(key, mtn + 1)
column_of(key) == column_from(key, 1)

\* a clean-style data file is being written for a collector where the histogram of
\* "A" occupies buckets from 0 to 10 and that of "B" buckets from 20 to 30
Scenario_A_0_10_B_20_30 ==
    /\ style = MORDOR_STYLE_CLEAN
    /\ pc \in {"write_row", "goto_write_row", "last_line", "done"}
    /\ {"A", "B"} \subseteq DOMAIN table
    /\ clean_start(table["A"].hist) = F(0) /\ clean_finish(table["A"].hist) = F(10)
    /\ clean_start(table["B"].hist) = F(20) /\ clean_finish(table["B"].hist) = F(30)

\* C14 as stated: with "A" on buckets 0 to 10 and "B" on buckets 20 to 30, every line
\* at a position strictly between 10 and 20 holds "NAN" for both "A" and "B".
C14_GapLinesAllPlaceholders ==
    Scenario_A_0_10_B_20_30 =>
        \A r \in Rows :
            (FGt(out[r].pos, F(10)) /\ FLt(out[r].pos, F(20)))
                => /\ isnan(out[r].cols[column_of("A")])
                   /\ isnan(out[r].cols[column_of("B")])

\* C14 amended: with "A" on buckets 0 to 10 and "B" on buckets 20 to 30, a line at a
\* position p strictly between 10 and 20 holds "NAN" for "A" exactly when
\* p > 10 + 1.5*bucket_size and for "B" exactly when p < 20 - 1.5*bucket_size, and 0
\* otherwise: the lines within 1.5*bucket_size of 10 or of 20 hold a 0, those further
\* inside the gap hold "NAN" for both keys.
C14_GapLinesPlaceholdersBeyondReach ==
    Scenario_A_0_10_B_20_30 =>
        \A r \in Rows :
            (FGt(out[r].pos, F(10)) /\ FLt(out[r].pos, F(20)))
                => LET p == out[r].pos
                       reach == FMul(<<3, 2>>, bucket_size)
                   IN  /\ out[r].cols[column_of("A")]
                              = IF FGt(p, FAdd(F(10), reach)) THEN NaN ELSE F(0)
                       /\ out[r].cols[column_of("B")]
                              = IF FLt(p, FSub(F(20), reach)) THEN NaN ELSE F(0)

\* the data file of the scenario is complete; between 10 and 20 it has a line with 0
\* for "A", a line with "NAN" for both keys and a line with 0 for "B"
C14_Witness ==
    /\ Scenario_A_0_10_B_20_30 /\ pc = "done"
    /\ \E r1, r2, r3 \in Rows :
           /\ r1 < r2 /\ r2 < r3
           /\ FGt(out[r1].pos, F(10)) /\ FLt(out[r3].pos, F(20))
           /\ out[r1].cols[column_of("A")] = F(0) /\ isnan(out[r1].cols[column_of("B")])
           /\ isnan(out[r2].cols[column_of("A")]) /\ isnan(out[r2].cols[column_of("B")])
           /\ isnan(out[r3].cols[column_of("A")]) /\ out[r3].cols[column_of("B")] = F(0)

\* C15: in a clean-style data file the lines are at strictly increasing positions
\* that never differ by more than 1.5*bucket_size from one line to the next; a
\* synthetic line is one bucket_size after the line before it and reports a cumulative
\* count of 0; and the complete data file has a data line, with the bucket's count, at
\* every occupied bucket of the cumulative histogram and nowhere else.
C15_GapsFilled ==
    (style = MORDOR_STYLE_CLEAN /\ pc \in {"write_row", "goto_write_row", "last_line", "done"})
        => /\ \A r \in Rows : (r + 1) \in Rows =>
                  /\ FLt(out[r].pos, out[r + 1].pos)
                  /\ FLe(FSub(out[r + 1].pos, out[r].pos), FMul(<<3, 2>>, bucket_size))
           /\ \A r \in Rows : out[r].kind = "synthetic" =>
                  /\ out[r].all = 0
                  /\ out[r].pos = FAdd(out[r - 1].pos, bucket_size)
           /\ \A r \in Rows : out[r].kind = "data" =>
                  /\ out[r].pos \in DOMAIN cumulative_hist.buckets
                  /\ out[r].all = histogram_count(cumulative_hist, out[r].pos)
           /\ pc = "done" =>
                  \A b \in DOMAIN cumulative_hist.buckets :
                      \E r \in Rows : out[r].kind = "data" /\ out[r].pos = b

C17_ClassicRows ==
    (pc = "done" /\ style = MORDOR_STYLE_CLASSIC) =>
        LET num_buckets == histogram_size(cumulative_hist)
        IN  /\ Cardinality(Rows) = num_buckets + 2
            /\ \A row \in 1..num_buckets :
                   /\ out[row + 2].kind = "data"
                   /\ out[row + 2].pos = histogram_buckets(cumulative_hist)[row]
                   /\ row > 1 => FLt(out[row + 1].pos, out[row + 2].pos)
                   /\ \A column \in DOMAIN sorted :
                          out[row + 2].cols[column]
                              = F(CountAt(table[sorted[column]].hist, out[row + 2].pos))
            /\ \A r \in Rows : \A column \in DOMAIN sorted : ~isnan(out[r].cols[column])

\* a complete classic-style data file with at least two data lines in which one key
\* has a count and another key a 0
C17_Witness ==
    /\ pc = "done" /\ style = MORDOR_STYLE_CLASSIC
    /\ histogram_size(cumulative_hist) >= 2
    /\ \E r \in Rows : \E i, j \in DOMAIN sorted :
           /\ out[r].kind = "data"
           /\ FGe(out[r].cols[i], F(1)) /\ out[r].cols[j] = F(0)

\* C18: in both styles every line written (header, padding, data and synthetic lines)
\* has N + 2 fields for the N keys of the collector; the header is the bucket size,
\* "(all)" and the N keys, each once, in the order create_sorted_keys returned for this
\* call; and in every data or synthetic line the k-th key field belongs to the key
\* named by the k-th key field of the header: it is that key's count at the line's
\* position, or "NAN" in the clean style.
C18_ColumnsFollowHeader ==
    out # <<>> =>
        LET N == Cardinality(DOMAIN table)
            header == out[1]
        IN  /\ header.kind = "header"
            /\ header.pos = bucket_size /\ header.all = "(all)"
            /\ header.cols = sorted
            /\ Len(header.cols) = N
            /\ {header.cols[k] : k \in 1..N} = DOMAIN table
            /\ \A r \in Rows :
                   /\ 2 + Len(out[r].cols) = N + 2
                   /\ out[r].kind \in {"data", "synthetic"} =>
                          \A k \in 1..N :
                              \/ out[r].cols[k]
                                     = F(CountAt(table[header.cols[k]].hist, out[r].pos))
                              \/ style = MORDOR_STYLE_CLEAN /\ isnan(out[r].cols[k])

\* a complete data file of two keys, not in the order of their first insertion, with
\* a data line that holds a count for one key and another field for the other
C18_Witness ==
    /\ pc = "done" /\ Len(sorted) = 2 /\ sorted # keys
    /\ \E r \in Rows :
           /\ out[r].kind = "data"
           /\ FGe(out[r].cols[1], F(1))
           /\ out[r].cols[2] # out[r].cols[1]

-----------------------------------------------------------------------------
(* Properties of create_sorted_keys *)

\* the mean of the series of a key
mean_of(key) == stats_mean(table[key].stat).ret

\* C19: the array create_sorted_keys returns holds every key of the collector once;
\* sorted by mean (the default) the means of the series never decrease along it, and
\* sorted by key the keys never decrease in string order.
C19_SortedKeys ==
    pc # "idle" =>
        /\ Len(sorted) = Cardinality(DOMAIN table)
        /\ {sorted[i] : i \in DOMAIN sorted} = DOMAIN table
        /\ sortby = MORDOR_SORTBY_MEAN =>
               \A i \in 1..(Len(sorted) - 1) : FLe(mean_of(sorted[i]), mean_of(sorted[i + 1]))
        /\ sortby = MORDOR_SORTBY_KEY =>
               \A i \in 1..(Len(sorted) - 1) : key_code(sorted[i]) <= key_code(sorted[i + 1])

\* C20: with MORDOR_SORTBY_NONE the array create_sorted_keys returns holds the keys
\* in the order in which each key was first given to mordor_insert.
C20_UnsortedIsInsertionOrder ==
    (pc # "idle" /\ sortby = MORDOR_SORTBY_NONE) => sorted = keys

-----------------------------------------------------------------------------
(* Properties of stats2_linear_regression *)

\* C21: stats2_linear_regression returns 0 whenever count < 2 or the slope it computes
\* is NaN or infinite (as when stddev_x is 0); when it returns 0 the doubles behind
\* slope_dst and yint_dst are as they were; when it returns non-zero the slope it wrote
\* is finite.
C21_RegressionFailureWritesNothing ==
    [][ (op' = "stats2_linear_regression") =>
            (/\ (s2.count < 2 \/ ~isfinite(regression_slope(s2)[1])) => (ret' = F(0))
             /\ (s2.count >= 2 /\ stats2_stddev_x(s2)[1] = F(0)) => (ret' = F(0))
             /\ (ret' = F(0)) => (slope_dst' = slope_dst /\ yint_dst' = yint_dst)
             /\ (ret' # F(0)) => (isfinite(slope_dst') /\ isfinite(yint_dst')) ) ]_vars

\* a call failed on equal x values, the caller's doubles holding an earlier fit
C21_Witness ==
    /\ op = "stats2_linear_regression" /\ ret = F(0)
    /\ arg = <<TRUE, TRUE>>
    /\ s2.count >= 2 /\ stats2_stddev_x(s2)[1] = F(0)
    /\ isfinite(slope_dst) /\ isfinite(yint_dst)

\* the points held by s2
PointSet == BagToSet(points)

\* slope and intercept of the line through the points p and q, of distinct x
line_through(p, q) ==
    LET a == FDiv(FSub(q[2], p[2]), FSub(q[1], p[1]))
    IN  [a |-> a, b |-> FSub(p[2], FMul(a, p[1]))]

\* every point held by s2 lies on y = a*x + b
AllOnLine(a, b) == \A r \in PointSet : r[2] = FAdd(FMul(a, r[1]), b)

\* C22: when the points held lie exactly on a line y = a*x + b and have at least two
\* distinct x values, stats2_linear_regression returns non-zero and writes slope a and
\* intercept b (and the correlation of (1,2),(2,4),(3,6) is 1).
C22_ExactLineRecovered ==
    (op = "stats2_linear_regression" /\ arg = <<TRUE, TRUE>>) =>
        /\ \A p, q \in PointSet :
               (p[1] # q[1] /\ AllOnLine(line_through(p, q).a, line_through(p, q).b)) =>
                   /\ ret = F(1)
                   /\ slope_dst = line_through(p, q).a
                   /\ yint_dst = line_through(p, q).b
        /\ PointSet = {<<F(1), F(2)>>, <<F(2), F(4)>>, <<F(3), F(6)>>} =>
               stats2_linear_correlation(s2) = <<F(1), 1>>

-----------------------------------------------------------------------------
(* Properties of the collector's lifetime *)

\* C23: after mordor_delete nothing the collector allocated is left: every histogram
\* it built and every buffer of values it created has been released, whatever inserts
\* and rebuilds came before.
C23_NothingOutlivesCollector ==
    pc = "deleted" => (heap.histograms = 0 /\ heap.buffers = 0)

\* the histogram built from scratch from the values an accumulator holds
fresh_histogram(st, width) == stats_build_histogram(st, width, STATS_KEEP_OUTLIERS).hist

\* C24: whenever the histograms have been refreshed for a render, after any interleaving
\* of inserts and refreshes, the cumulative histogram and every series' histogram equal
\* the histogram built from scratch from the accumulator's values at the shared bucket
\* size: no series that the dirty test skipped is stale.
C24_HistogramsFreshAtRender ==
    op = "mordor_build_histograms" =>
        /\ ~dirty
        /\ cumulative_hist = fresh_histogram(cumulative_stats, bucket_size)
        /\ \A k \in DOMAIN table :
               table[k].hist = fresh_histogram(table[k].stat, bucket_size)

\* a refresh that replaced the histogram of one series only, after an earlier refresh
\* of both series and an insert in between
C24_Witness ==
    /\ op = "mordor_build_histograms"
    /\ DOMAIN table = {"A", "B"}
    /\ \A k \in DOMAIN table : table[k].hist # NULL /\ histogram_total_count(table[k].hist) >= 1
    /\ calls = 3
    /\ heap.histograms = 4

-----------------------------------------------------------------------------
(* Properties of the order statistics *)

\* the values held, in ascending order
ascending == SortSeq(s.values, FLt)

\* the middle-element rule on the C index range [from, to) of the ascending values:
\* the middle element of an odd number of values, the mean of the two middle elements
\* of an even number
middle_of(from, to) ==
    LET q == SubSeq(ascending, from + 1, to)
        n == Len(q)
    IN  IF n % 2 = 1 THEN q[(n + 1) \div 2]
        ELSE FDiv(FAdd(q[n \div 2], q[(n \div 2) + 1]), F(2))

\* C26: for every count >= 1, stats_median is the middle of [0, count); stats_Q1 is the
\* sole value if count = 1 and else the middle of [0, count/2); stats_Q3 is the sole
\* value if count = 1, the middle of [count/2, count) if count is even and the middle
\* of [count/2 + 1, count) if count is odd.
C26_QuartileRule ==
    s.count >= 1 =>
        /\ op = "stats_median" => ret = middle_of(0, s.count)
        /\ op = "stats_Q1" =>
               ret = IF s.count = 1 THEN ascending[1] ELSE middle_of(0, s.count \div 2)
        /\ op = "stats_Q3" =>
               ret = IF s.count = 1 THEN ascending[1]
                     ELSE IF s.count % 2 = 0 THEN middle_of(s.count \div 2, s.count)
                     ELSE middle_of((s.count \div 2) + 1, s.count)

\* stats_Q3 of five values whose three highest differ: the mean of the two highest,
\* the median left out
C26_Witness ==
    /\ op = "stats_Q3"
    /\ s.count = 5
    /\ ascending[4] # ascending[5]
    /\ ascending[3] # ascending[4]
    /\ ret = FDiv(FAdd(ascending[4], ascending[5]), F(2))

-----------------------------------------------------------------------------
(* Properties of the clean data file as a whole *)

\* most lines of a clean data file whose rows advance by bucket_size from the first
\* occupied bucket to the last: the header, two padding lines and one row per bucket
\* size in between
clean_line_bound ==
    IF Len(cumulative_buckets) = 1
    THEN F(4)
    ELSE FAdd(FDiv(FSub(cumulative_buckets[Len(cumulative_buckets)], cumulative_buckets[1]),
                   bucket_size),
              F(4))

\* C27: for a collector holding at least one finite value the row loop of
\* mordor_datafile_clean, its backward jump included, writes finitely many rows (no
\* more than the buckets from the first to the last occupied one, and fewer than the
\* lines that are followed) and so goes on to the last padding line.
C27_CleanTableTerminates ==
    (style # MORDOR_STYLE_CLASSIC /\ cumulative_stats.count >= 1
     /\ pc \in {"write_row", "goto_write_row", "last_line", "done"}) =>
        /\ FLe(F(Len(out)), clean_line_bound)
        /\ Len(out) < MaxLines

\* the sum of the fields of the keys that hold a number, from column i on
RECURSIVE numeric_sum(_, _)
numeric_sum(cols, i) ==
    IF i > Len(cols) THEN F(0)
    ELSE FAdd(IF isnan(cols[i]) THEN F(0) ELSE cols[i], numeric_sum(cols, i + 1))

\* C28: in a clean-style data file "NAN" never stands for data: in every line, a key
\* whose histogram has a count above zero at the line's position has that count in its
\* column, and the (all) field equals the sum of the columns that hold a number.
C28_PlaceholderHidesNoData ==
    (style # MORDOR_STYLE_CLASSIC /\ pc \in {"write_row", "goto_write_row", "last_line", "done"})
        => \A r \in Rows :
               /\ out[r].kind \in {"data", "synthetic"} =>
                      \A mtn \in DOMAIN sorted :
                          CountAt(table[sorted[mtn]].hist, out[r].pos) > 0 =>
                              out[r].cols[mtn] = F(CountAt(table[sorted[mtn]].hist, out[r].pos))
               /\ F(out[r].all) = numeric_sum(out[r].cols, 1)

-----------------------------------------------------------------------------
(* Properties of the lazy sort *)

is_ascending(q) == \A i \in 1..(Len(q) - 1) : FLe(q[i], q[i + 1])

\* the statistics that read values[] by position
OrderStatistics ==
    {"stats_minimum", "stats_maximum", "stats_median", "stats_Q1", "stats_Q3",
     "stats_whisker_low", "stats_whisker_high"}

\* C29: whenever the dirty flag of the accumulator is clear, values[0..count) is in
\* ascending order; and every order statistic returns what it returns on the same
\* values in ascending order, whatever inserts, resets, merges and queries came before.
C29_CleanMeansAscending ==
    /\ ~s.dirty => is_ascending(s.values)
    /\ op \in OrderStatistics =>
           /\ is_ascending(s.values)
           /\ ret = stats_query(op, [s EXCEPT !.values = ascending, !.dirty = FALSE]).ret

\* a whisker asked of four values or more, not all equal, has left them sorted
C29_Witness ==
    /\ op = "stats_whisker_high"
    /\ s.count >= 4
    /\ ~s.dirty
    /\ s.values[1] # s.values[s.count]
    /\ ret = s.values[s.count]

-----------------------------------------------------------------------------
(* Properties of the order of insertion *)

\* the values of s from the largest to the smallest: one order of insertion
\* that the bag of the values determines
descending == [i \in 1..Len(ascending) |-> ascending[Len(ascending) + 1 - i]]

\* the accumulator fed the same values in that order and never queried
canonical == stats_of(descending)

\* the sum of the values inserted, and of their magnitudes, without rounding
exact_sum == BagSum(inserted, BagToSet(inserted))

RECURSIVE sum_abs(_)
sum_abs(q) == IF q = <<>> THEN F(0) ELSE FAdd(fabs(q[1]), sum_abs(Tail(q)))

\* the error bound of n additions rounded to nearest: (n u / (1 - n u)) * sum |x|,
\* u = 2^-SignificandBits
rounding_bound(n, q) == FMul(Frac(n, pow2(SignificandBits) - n), sum_abs(q))

StatsReaders == {"stats_mean", "stats_build_histogram"} \cup OrderStatistics

\* a query sorts the buffer in place and changes nothing else
query_keeps_contents ==
    op' \in StatsReaders =>
        /\ s'.count = s.count
        /\ s'.sum = s.sum
        /\ s'.sum_squares = s.sum_squares
        /\ BagOfSeq(s'.values) = BagOfSeq(s.values)

\* what a query other than the mean, or stats_build_histogram, has returned is
\* what it returns from the accumulator fed the same values in another order
order_statistics_from_bag ==
    /\ BagOfSeq(s.values) = inserted
    /\ op \in OrderStatistics => ret = stats_query(op, canonical).ret
    /\ op = "stats_build_histogram" =>
           hist = stats_build_histogram(canonical, arg[1], arg[2][1]).hist

\* C30 (as stated): the results of an accumulator depend only on the multiset of
\* the finite values inserted: whatever the order of the inserts and whatever
\* queries came in between, the mean, minimum, maximum, median, Q1, Q3 and
\* whiskers returned and the histograms built are those of an accumulator fed
\* the same values in another order, and a query changes neither count, sum,
\* sum_squares nor the multiset of the stored values.
C30_ResultsFromMultisetOnly ==
    /\ [](/\ order_statistics_from_bag
          /\ op = "stats_mean" =>
                 to_double(ret) = to_double(stats_mean(canonical).ret))
    /\ [][query_keeps_contents]_vars

\* C30 (amended): the same for every result but the mean; the mean is
\* sum / count of a sum rounded after each insert, in the order of the inserts:
\* it is the mean of the multiset when no addition has rounded, and otherwise
\* within the rounding error of count - 1 additions of it.
C30_OrderStatisticsFromMultiset ==
    /\ [](/\ order_statistics_from_bag
          /\ op = "stats_mean" /\ s.count > 0 =>
                 /\ ret = FDiv(s.sum, F(s.count))
                 /\ s.sum = exact_sum => ret = FDiv(exact_sum, F(s.count))
                 /\ FLe(fabs(FSub(s.sum, exact_sum)),
                        rounding_bound(s.count - 1, s.values)))
    /\ [][query_keeps_contents]_vars

\* the mean was asked of three values inserted neither in ascending nor in
\* descending order, whose sum was rounded
C30_Witness ==
    /\ op = "stats_mean"
    /\ s.count = 3
    /\ s.dirty
    /\ s.values # ascending
    /\ s.values # descending
    /\ s.sum # exact_sum


====
